---- MODULE Spec2Model ----
(***************************************************************************)
(* Token providers of spotipy (src/spotipy/auth.py): ClientCredentials and *)
(* AuthorizationCode, used by several callers that share one provider      *)
(* object.  A caller's make_authorization_headers call is a sequence of    *)
(* steps (check + send, receive + first assignment, second assignment,     *)
(* save, return); steps of different callers interleave freely, as the     *)
(* code takes no lock.  The token endpoint answers each request with any   *)
(* response of Responses.                                                  *)
(*                                                                         *)
(* The second part is the request dispatcher of src/spotipy/client.py      *)
(* (Spotify._auth_headers, Spotify._internal_call) over the transport it   *)
(* configures, and the token managers of src/spotipy/oauth2.py that it     *)
(* and its callers use (SpotifyClientCredentials, SpotifyOAuth).           *)
(***************************************************************************)
EXTENDS Integers, Sequences, FiniteSets, TLC

VARIABLES phase, args, prov, file, clock, requests, call, expires_src, fresh_load,
          sp, exec, oa, pure, httpd

vars == <<phase, args, prov, file, clock, requests, call, expires_src, fresh_load,
          sp, exec, oa, pure, httpd>>

\* The state of the providers of auth.py, and of the client and oauth2 objects.
avars == <<phase, args, prov, file, requests, call, expires_src, fresh_load>>

cvars == <<sp, exec, oa, pure, httpd>>

(* ------------------------------ bounds -------------------------------- *)

\* Number of callers sharing the provider.
NCallers == 2

\* The clock (int(time.time())) runs from 0 to MaxTime.
MaxTime == 2

\* Total number of requests sent to the token endpoint.
MaxRequests == 3

\* Longest identifier given to _get_id, in symbols.
MaxIdLen == 5

\* The longest sequence given as a parameter value.
MaxItems == 3

\* The longest sequence given as item_type.
MaxTypes == 2

\* The most requests the callback server is sent.
MaxServed == 3

Callers == 1..NCallers

(* ------------------------- values of the program ---------------------- *)

\* Python's None; Some(x) is a present value, Val its content.
None == <<>>

Some(x) == <<x>>

Val(o) == o[1]

\* The empty string, which Python's `not` treats like None.
EmptyStr == <<"">>

\* `not v` of Python is FALSE exactly for these.
Truthy(v) == v # None /\ v # EmptyStr

\* The access token supplied to the constructor, and the one issued by the
\* token endpoint in answer to request n.
SeedToken == <<"seed">>

Token(n) == <<"tok", n>>

RefreshToken(n) == <<"refresh", n>>

\* The exchange a token value comes from (0: supplied at construction).
TokenExchange(tok) == IF Len(tok) = 2 THEN tok[2] ELSE 0

\* auth.py:32, the margin of is_token_expired.
Skew == 30

\* auth.py:21, HTTPStatus.OK.
HTTP_OK == 200

\* expires_in values of the token endpoint: one below the margin, one that
\* is valid for one tick and on the boundary after it.
ExpiresInValues == {29, 31}

\* Constructor inputs of AuthorizationCode.
SeedExpiresAt == {None, Some(31)}

SeedAccessTokens == {None, EmptyStr, SeedToken}

PersistPaths == {None, <<".cache">>}

Sessions == {None, <<"session">>}

\* Tokens given to PlainAccessToken.
PlainTokens == {EmptyStr, SeedToken}

ClientId == <<"client_id_value">>

ClientSecret == <<"client_secret_value">>

(* ------------------------------ auth.py ------------------------------- *)

IsTokenExpired_Inclusive(expires_at, now) == expires_at - now <= Skew

\* is_token_expired, with `now` the clock it reads.
IsTokenExpired(expires_at, now) == expires_at - now < Skew

CtorRejects_Truthiness(access_token, expires_at) ==
    Truthy(access_token) # (expires_at # None)

\* AuthorizationCode.__init__, the condition of its ValueError.
CtorRejects(access_token, expires_at) ==
    (access_token # None) # (expires_at # None)

\* The object before its constructor ran.
NoProvider ==
    [kind |-> "none", client_id |-> None, client_secret |-> None,
     refresh_token |-> None, access_token |-> None, expires_at |-> None,
     path |-> None, session |-> None]

\* ClientCredentials.__init__: a session is always set.
NewClientCredentials(a) ==
    [kind |-> "ClientCredentials", client_id |-> a.client_id,
     client_secret |-> a.client_secret, refresh_token |-> None,
     access_token |-> None, expires_at |-> None, path |-> None,
     session |-> <<"session">>]

\* AuthorizationCode.__init__: self.session is set only when no session is
\* passed in.
NewAuthorizationCode(a) ==
    [kind |-> "AuthorizationCode", client_id |-> a.client_id,
     client_secret |-> a.client_secret, refresh_token |-> a.refresh_token,
     access_token |-> a.access_token, expires_at |-> a.expires_at,
     path |-> a.path,
     session |-> IF a.session = None THEN <<"session">> ELSE None]

RequestPayload_RefreshGrant(p) ==
    [grant_type |-> "refresh_token", refresh_token |-> p.refresh_token]

\* PlainAccessToken.__init__: the token is stored as given.
NewPlainAccessToken(a) ==
    [kind |-> "PlainAccessToken", client_id |-> None, client_secret |-> None,
     refresh_token |-> None, access_token |-> a.access_token,
     expires_at |-> None, path |-> None, session |-> <<"session">>]

\* The payload of _request_access_token.
RequestPayload(p) ==
    IF p.kind = "ClientCredentials"
    THEN [grant_type |-> "client_credentials"]
    ELSE [grant_type |-> "refresh_token", refresh_token |-> p.refresh_token]

\* Responses of the token endpoint to request n.  content says whether the
\* body is empty, a JSON object or anything else; a key the JSON object
\* lacks is None.  A 200 body is the token info.
OkBodies(n) ==
    {[access_token |-> Some(Token(n)), expires_in |-> Some(x), refresh_token |-> r] :
        x \in ExpiresInValues, r \in {None, Some(RefreshToken(n))}}
    \cup {[access_token |-> Some(Token(n)), expires_in |-> None, refresh_token |-> None],
          [access_token |-> None, expires_in |-> Some(31), refresh_token |-> None]}

ErrorBodies ==
    {[error |-> Some("invalid_grant"), error_description |-> d] :
        d \in {None, Some("Invalid refresh token")}}

NoBody == [error |-> None, error_description |-> None]

Responses(n) ==
    {[kind |-> "http", status |-> HTTP_OK, content |-> "json", body |-> b] :
        b \in OkBodies(n)}
    \cup {[kind |-> "http", status |-> 400, content |-> "json", body |-> b] :
            b \in ErrorBodies}
    \cup {[kind |-> "http", status |-> st, content |-> c, body |-> NoBody] :
            st \in {HTTP_OK, 400}, c \in {"empty", "malformed"}}
    \cup {[kind |-> "http", status |-> 204, content |-> "empty", body |-> NoBody],
          [kind |-> "timeout", status |-> 0, content |-> "empty", body |-> NoBody]}

\* The exception a call ends with.
Raised(type, status) == [type |-> type, status |-> status]

\* request_token: the exception it raises, or the decoded 200 body.
RequestToken(resp) ==
    IF resp.kind = "timeout"
    THEN [ok |-> FALSE, err |-> Raised("RequestException", 0)]
    ELSE IF resp.status # HTTP_OK
         THEN IF resp.content = "empty"
              THEN [ok |-> FALSE, err |-> Raised("AuthorizationError", resp.status)]
              ELSE IF resp.content = "malformed"
                   THEN [ok |-> FALSE, err |-> Raised("ValueError", 0)]
                   ELSE IF resp.body.error = None \/ resp.body.error_description = None
                        THEN [ok |-> FALSE, err |-> Raised("KeyError", 0)]
                        ELSE [ok |-> FALSE,
                              err |-> Raised("AuthorizationError", resp.status)]
         ELSE IF resp.content # "json"
              THEN [ok |-> FALSE, err |-> Raised("ValueError", 0)]
              ELSE [ok |-> TRUE, token_info |-> resp.body]

ExpiresAt_ExpiresInOnly(expires_in, now) == expires_in

\* The expiry _request_access_token stores: token_info["expires_in"] + now,
\* with now read before the request was sent.
ExpiresAt(expires_in, now) == expires_in + now

SaveData_WithAccessToken(p) ==
    [client_id |-> p.client_id, client_secret |-> p.client_secret,
     refresh_token |-> p.refresh_token, access_token |-> p.access_token]

\* AuthorizationCode.save, the data it writes.
SaveData(p) ==
    [client_id |-> p.client_id, client_secret |-> p.client_secret,
     refresh_token |-> p.refresh_token]

LoadProvider_NoPath(data, path, session) ==
    NewAuthorizationCode(
        [client_id |-> data.client_id, client_secret |-> data.client_secret,
         refresh_token |-> data.refresh_token, access_token |-> None,
         expires_at |-> None, path |-> None, session |-> session])

\* AuthorizationCode.load, the constructor call on the data read.
LoadProvider(data, path, session) ==
    NewAuthorizationCode(
        [client_id |-> data.client_id, client_secret |-> data.client_secret,
         refresh_token |-> data.refresh_token, access_token |-> None,
         expires_at |-> None, path |-> path, session |-> session])

\* "Bearer {}".format(token)
Bearer(tok) == <<"Bearer ", tok>>

(* ------------------------ client.py, oauth2.py ------------------------ *)

\* client.py:87, Spotify.max_retries.
max_retries == 10

\* client.py:139, 145, 156: HTTPStatus.TOO_MANY_REQUESTS, NOT_FOUND, NO_CONTENT.
TOO_MANY_REQUESTS == 429

NOT_FOUND == 404

NO_CONTENT == 204

\* oauth2.py:24, the margin of the legacy is_token_expired.
LegacySkew == 60

\* client.py:119, the methods the retry policy applies to.
method_whitelist == {"POST", "GET", "PUT", "DELETE"}

\* The methods of _get, _post, _delete and _put.
Methods == {"GET", "POST", "DELETE", "PUT"}

\* urllib3's Retry.RETRY_AFTER_STATUS_CODES: the statuses whose Retry-After
\* header the retry policy of client.py:119 honours (respect_retry_after_header
\* is left at its default, True).
RETRY_AFTER_STATUS_CODES == {413, 429, 503}

\* A provider object of auth.py passed to Spotify(...) as `auth`, as
\* tests/integration_test.py:17 does; the object itself is the variable prov.
ProviderRef == <<"provider", "object">>

\* "{}".format(v): a str is formatted as itself, None as "None", and an
\* object without __format__/__str__ as its default repr.
PyFormat(v) ==
    IF v = None THEN <<"None">>
    ELSE IF v = ProviderRef THEN <<"<spotipy.auth provider object>">>
    ELSE v

\* A key that a dict does not have.
Absent == <<"absent", "key">>

\* The **params of the endpoint wrappers: each key absent, None or a string.
ParamInputs ==
    {[device_id |-> d, market |-> m] :
        d \in {Absent, None, <<"dev">>}, m \in {Absent, None}}

\* `if params:` of a dict.
DictTruthy(d) == \E k \in DOMAIN d : d[k] # Absent

\* An int and a list (or tuple) as parameter values.
PyInt(n) == <<"int", n>>

PyList(items) == <<"list", "of", items>>

\* hasattr(vs, "__iter__") and not isinstance(vs, str)
IsIterable(vs) == Len(vs) = 3 /\ vs[1] = "list"

IsStr(v) == Len(v) = 1

\* The elements of a list that are not None, in order.
RECURSIVE NotNone(_)
NotNone(items) ==
    IF items = <<>> THEN <<>>
    ELSE IF Head(items) = None THEN NotNone(Tail(items))
    ELSE <<Head(items)>> \o NotNone(Tail(items))

\* ",".join(strs) for a sequence of strings.
RECURSIVE Join(_)
Join(strs) ==
    IF strs = <<>> THEN EmptyStr
    ELSE IF Len(strs) = 1 THEN Head(strs)
    ELSE <<Head(strs)[1] \o "," \o Join(Tail(strs))[1]>>

\* str.join raises TypeError on an element that is not a string.
JoinRaises(d) ==
    \E k \in DOMAIN d :
        /\ IsIterable(d[k])
        /\ \E i \in DOMAIN d[k][3] : d[k][3][i] # None /\ ~IsStr(d[k][3][i])

\* The entry of encode_params' result for one value of data.
EncodeValue(vs) ==
    IF vs = None \/ vs = Absent THEN Absent
    ELSE IF IsIterable(vs)
    THEN LET joined == Join(NotNone(vs[3]))
         IN  IF Truthy(joined) THEN joined ELSE Absent
    ELSE vs

\* encode_params when no join raises: the result dict.
EncodeParams(d) == [k \in DOMAIN d |-> EncodeValue(d[k])]

\* The elements of the sequences given as parameter values.
ListItems == {None, EmptyStr, <<"x">>, <<"y">>, PyInt(5)}

Lists == {PyList(l) : l \in UNION {[1..n -> ListItems] : n \in 0..MaxItems}}

Scalars == {EmptyStr, <<"x">>, PyInt(5)}

\* The data given to encode_params: key a absent, None or a scalar, key b a
\* sequence, key c absent, None or a scalar.
EncoderInputs ==
    {[a |-> a, b |-> b, c |-> c] :
        a \in {Absent, None}, b \in Lists, c \in {Absent, None} \cup Scalars}

\* Answers of the resource API.  retry_after is the Retry-After header
\* (None when absent); content says whether the body is empty or JSON; a
\* 4xx body is {"error": {"message": ..., "reason": ...}}, reason optional.
NoErrorObject == [message |-> None, reason |-> None]

ErrorObjects ==
    {[message |-> <<"msg">>, reason |-> r] :
        r \in {None, <<"NO_ACTIVE_DEVICE">>, <<"UNKNOWN">>}}

JsonValue == <<"json value">>

ApiResponse(status, retry_after, content, error, value) ==
    [kind |-> "http", status |-> status, retry_after |-> retry_after,
     content |-> content, error |-> error, value |-> value]

ApiResponses ==
    {ApiResponse(st, None, c, NoErrorObject, IF c = "json" THEN JsonValue ELSE None) :
        st \in {HTTP_OK, NO_CONTENT, 500}, c \in {"empty", "json"}}
    \cup {ApiResponse(st, None, "json", e, None) :
            st \in {400, NOT_FOUND}, e \in ErrorObjects}
    \cup {ApiResponse(st, None, "empty", NoErrorObject, None) :
            st \in {400, NOT_FOUND}}
    \cup {ApiResponse(st, h, "empty", NoErrorObject, None) :
            st \in {TOO_MANY_REQUESTS, 503}, h \in {None, <<"2">>}}

NoApiResponse == [kind |-> "none", status |-> 0, retry_after |-> None,
                  content |-> "empty", error |-> NoErrorObject, value |-> None]

\* What one attempt of the transport meets: an answer, or a failure to
\* connect, or a failure while reading the answer.
AttemptOutcomes ==
    ApiResponses
    \cup {[NoApiResponse EXCEPT !.kind = k] : k \in {"connect_error", "read_error"}}

\* The outcome of a call: the value returned (None, or the parsed JSON), or
\* the exception raised.
NoError == [type |-> "", status |-> 0, message |-> None]

NoOutcome == [kind |-> "none", value |-> None, err |-> NoError]

ReturnValue(v) == [kind |-> "return", value |-> v, err |-> NoError]

RaiseError(type, status, message) ==
    [kind |-> "raise", value |-> None,
     err |-> [type |-> type, status |-> status, message |-> message]]

\* encode_params.
EncodeParamsOutcome(d) ==
    IF JoinRaises(d) THEN RaiseError("TypeError", 0, None)
    ELSE ReturnValue(Some(EncodeParams(d)))

\* base64.b64encode accepts bytes-like objects only: a str argument raises
\* TypeError.  A bytes value is <<"bytes", ...>>.
B64Encode(v) ==
    IF Len(v) > 0 /\ v[1] = "bytes"
    THEN [ok |-> TRUE, value |-> <<"b64">> \o v]
    ELSE [ok |-> FALSE, value |-> None]

\* oauth2._make_authorization_headers: b64encode of the str
\* "{}:{}".format(client_id, client_secret).
MakeBasicAuthorizationHeaders(client_id, client_secret) ==
    B64Encode(client_id \o <<":">> \o client_secret)

\* oauth2.is_token_expired.
LegacyIsTokenExpired(token_info, now) == token_info.expires_at - now < LegacySkew

\* Answers of the token endpoint to the managers of oauth2.py.
TokenAnswers ==
    {[status |-> HTTP_OK, reason |-> <<"OK">>,
      token_info |-> [access_token |-> Token(1), expires_in |-> 3600]],
     [status |-> 401, reason |-> <<"Unauthorized">>,
      token_info |-> [access_token |-> None, expires_in |-> 0]]}

\* SpotifyClientCredentials.__init__ with both credentials given.
NewSpotifyClientCredentials ==
    [client_id |-> ClientId, client_secret |-> ClientSecret, token_info |-> None]

\* SpotifyClientCredentials.get_access_token with _request_access_token and
\* _add_custom_values_to_token_info; ans is the token endpoint's answer to a
\* request it sends.  exceptions.Oauth2Error is not defined in exceptions.py,
\* so the raise statement itself fails with AttributeError.
GetAccessToken(m, now, ans) ==
    IF m.token_info # None /\ ~LegacyIsTokenExpired(Val(m.token_info), now)
    THEN [ok |-> TRUE, token |-> Val(m.token_info).access_token,
          token_info |-> m.token_info, err |-> NoError, sent |-> 0]
    ELSE IF ~MakeBasicAuthorizationHeaders(m.client_id, m.client_secret).ok
    THEN [ok |-> FALSE, token |-> None, token_info |-> m.token_info,
          err |-> RaiseError("TypeError", 0, None).err, sent |-> 0]
    ELSE IF ans.status # HTTP_OK
    THEN [ok |-> FALSE, token |-> None, token_info |-> m.token_info,
          err |-> RaiseError("AttributeError", 0, None).err, sent |-> 1]
    ELSE [ok |-> TRUE, token |-> ans.token_info.access_token,
          token_info |-> Some([access_token |-> ans.token_info.access_token,
                               expires_in |-> ans.token_info.expires_in,
                               expires_at |-> now + ans.token_info.expires_in]),
          err |-> NoError, sent |-> 1]

\* The Spotify object: auth is None, a token string or a provider object.
NoSpotify == [auth |-> None, client_credentials_manager |-> None]

SpotifyObjects ==
    {[auth |-> a, client_credentials_manager |-> m] :
        a \in {None, SeedToken, ProviderRef},
        m \in {None, Some(NewSpotifyClientCredentials)}}

\* Spotify._auth_headers: headers is the Authorization header, None for {}.
AuthHeaders(s, now, ans) ==
    IF Truthy(s.auth)
    THEN [ok |-> TRUE, headers |-> Some(Bearer(PyFormat(s.auth))),
          token_info |-> None, err |-> NoError]
    ELSE IF s.client_credentials_manager # None
    THEN LET r == GetAccessToken(Val(s.client_credentials_manager), now, ans) IN
         IF r.ok
         THEN [ok |-> TRUE, headers |-> Some(Bearer(PyFormat(r.token))),
               token_info |-> r.token_info, err |-> NoError]
         ELSE [ok |-> FALSE, headers |-> None, token_info |-> r.token_info,
               err |-> r.err]
    ELSE [ok |-> TRUE, headers |-> None, token_info |-> None, err |-> NoError]

\* urllib3's Retry.is_retry for Retry(max_retries, read=False,
\* method_whitelist=[...]) of client.py:119: no status_forcelist is given, so
\* an answer is retried only when it carries Retry-After and its status is
\* one of RETRY_AFTER_STATUS_CODES.
IsRetry(method, status, has_retry_after) ==
    /\ method \in method_whitelist
    /\ has_retry_after
    /\ status \in RETRY_AFTER_STATUS_CODES

\* What the transport does after attempt n met outcome a: a read failure is
\* raised at once (read=False); a connect failure or a retried status is
\* tried again while the max_retries retries last and raised after them
\* (requests' ConnectionError or RetryError); any other answer is returned
\* to _internal_call.
Transport(method, a, n) ==
    IF a.kind = "read_error"
    THEN "raise"
    ELSE IF a.kind = "connect_error" \/ IsRetry(method, a.status, a.retry_after # None)
         THEN IF n <= max_retries THEN "retry" ELSE "raise"
         ELSE "return"

TransportError(a) ==
    IF a.kind = "http"
    THEN RaiseError("RetryError", a.status, None)
    ELSE RaiseError("ConnectionError", 0, None)

IsClientError_AnyError(status) == 400 <= status /\ status < 600

\* client.py:142, `400 <= response.status_code < 500`.
IsClientError(status) == 400 <= status /\ status < 500

IsDeviceNotFound_AndBinds(status, params, error) ==
    status = NOT_FOUND
        /\ (params.device_id # Absent \/ error.reason = <<"NO_ACTIVE_DEVICE">>)

\* client.py:145-148: `status == NOT_FOUND and "device_id" in params or
\* error.get("reason") == "NO_ACTIVE_DEVICE"`.
IsDeviceNotFound(status, params, error) ==
    (status = NOT_FOUND /\ params.device_id # Absent)
        \/ error.reason = <<"NO_ACTIVE_DEVICE">>

Result_BodyFirst(response) ==
    IF response.content # "empty"
    THEN ReturnValue(Some(response.value))
    ELSE ReturnValue(None)

\* client.py:156-159: None for 204, the parsed JSON for a non-empty body,
\* and the implicit None otherwise.
Result(response) ==
    IF response.status = NO_CONTENT
    THEN ReturnValue(None)
    ELSE IF response.content # "empty"
         THEN ReturnValue(Some(response.value))
         ELSE ReturnValue(None)

\* _internal_call from line 139 on, for the response the session returned.
Classify(response, params) ==
    IF response.status = TOO_MANY_REQUESTS
    THEN RaiseError("RateLimitReached", 0, PyFormat(response.retry_after))
    ELSE IF IsClientError(response.status)
    THEN IF response.content # "empty"
         THEN IF IsDeviceNotFound(response.status, params, response.error)
              THEN RaiseError("DeviceNotFoundError", 0, response.error.message)
              ELSE RaiseError("SpotifyRequestError", response.status,
                              response.error.message)
         ELSE RaiseError("SpotifyRequestError", response.status, EmptyStr)
    ELSE IF response.status >= 400
    THEN RaiseError("HTTPError", response.status, None)
    ELSE Result(response)

\* Spotify.prefix; a URL is written as a sequence of pieces.
prefix == <<"https://", "api.spotify.com/v1/">>

\* The url arguments of the endpoint wrappers: a relative path, or the
\* absolute URL of a page as the API returns it.
PageUrl == <<"https://", "api.spotify.com/v1/", "me/tracks?offset=20">>

Paths == {<<"me/tracks">>, PageUrl}

\* url.startswith("http")
StartsWithHttp(url) == url # <<>> /\ url[1] \in {"http://", "https://"}

\* The URL of the request with the prefix put before every url.
RequestUrl_AlwaysPrefixed(url) == prefix \o url

\* The URL handed to session.request.
RequestUrl(url) == IF StartsWithHttp(url) THEN url ELSE prefix \o url

\* The paged results given to next and previous.
PagedResults ==
    {[next |-> n, previous |-> p] : n, p \in {None, EmptyStr, PageUrl}}

\* A call of _internal_call, next or previous (op): its arguments (path is
\* the url argument, or the field of the paged result), the URL, query and
\* Authorization header of the request it made (calls counts session.request calls,
\* attempts the HTTP attempts of the transport), the last outcome on the
\* wire, the response the session returned and the outcome of the call.
IdleExec ==
    [pc |-> "idle", op |-> "", path |-> None, url |-> None,
     method |-> "", raw |-> [device_id |-> Absent, market |-> Absent],
     params |-> [device_id |-> Absent, market |-> Absent], headers |-> None,
     token_answer |-> 0, calls |-> 0, attempts |-> 0, last |-> NoApiResponse,
     response |-> NoApiResponse, out |-> NoOutcome]

\* The token cache file of SpotifyOAuth: absent, not JSON, or a token info.
CacheFiles ==
    {[state |-> "absent"], [state |-> "partial"]}
    \cup {[state |-> "written",
           data |-> [access_token |-> SeedToken, refresh_token |-> RefreshToken(0),
                     expires_at |-> e, scopes |-> sc]] :
            e \in {LegacySkew, LegacySkew + 1},
            sc \in {None, Some({"b"}), Some({"a", "b"})}}

\* What a call of SpotifyOAuth did: its outcome, the failures it ignored and
\* the token info it wrote to the cache (None when it wrote none).
OAuthResult(out, ignored, write) == [out |-> out, ignored |-> ignored, write |-> write]

\* SpotifyOAuth.refresh_access_token with _save_token_info; write_ok says
\* whether the cache file can be written.
RefreshAccessToken(o, token_info, now, ans, write_ok) ==
    IF ~MakeBasicAuthorizationHeaders(o.client_id, o.client_secret).ok
    THEN OAuthResult(RaiseError("TypeError", 0, None), {}, None)
    ELSE IF ans.status # HTTP_OK
    THEN OAuthResult(ReturnValue(None), {"refresh"}, None)
    ELSE LET new == [access_token |-> ans.token_info.access_token,
                     refresh_token |-> token_info.refresh_token,
                     expires_at |-> now + ans.token_info.expires_in,
                     scopes |-> Some(o.scopes)] IN
         IF Truthy(o.cache_path) /\ ~write_ok
         THEN OAuthResult(ReturnValue(Some(new)), {"cache write"}, None)
         ELSE OAuthResult(ReturnValue(Some(new)), {},
                          IF Truthy(o.cache_path) THEN Some(new) ELSE None)

\* SpotifyOAuth.get_cached_token: `except IOError: pass` covers open() of
\* the cache file; json.load of a file that is not JSON raises ValueError.
GetCachedToken(o, f, now, ans, write_ok) ==
    IF ~Truthy(o.cache_path)
    THEN OAuthResult(ReturnValue(None), {}, None)
    ELSE IF f.state = "absent"
    THEN OAuthResult(ReturnValue(None), {"cache read"}, None)
    ELSE IF f.state # "written"
    THEN OAuthResult(RaiseError("ValueError", 0, None), {}, None)
    ELSE IF f.data.scopes = None \/ ~(o.scopes \subseteq Val(f.data.scopes))
    THEN OAuthResult(ReturnValue(None), {}, None)
    ELSE IF LegacyIsTokenExpired(f.data, now)
    THEN RefreshAccessToken(o, f.data, now, ans, write_ok)
    ELSE OAuthResult(ReturnValue(Some(f.data)), {}, None)

\* SpotifyOAuth and one call of get_cached_token.
NoOAuth ==
    [pc |-> "none", client_id |-> None, client_secret |-> None,
     cache_path |-> None, scopes |-> {}, out |-> NoOutcome, ignored |-> {}]

\* SpotifyOAuth.__init__.
NewSpotifyOAuth(cache_path) ==
    [pc |-> "idle", client_id |-> ClientId, client_secret |-> ClientSecret,
     cache_path |-> cache_path, scopes |-> {"a"}, out |-> NoOutcome, ignored |-> {}]

\* The provider objects handed to Spotify(...) as `auth`.
ProviderObjects ==
    {NewPlainAccessToken([access_token |-> SeedToken]),
     NewAuthorizationCode(
        [client_id |-> ClientId, client_secret |-> ClientSecret,
         refresh_token |-> RefreshToken(0), access_token |-> SeedToken,
         expires_at |-> Some(3600), path |-> None, session |-> None])}

(* ---------------------- client.py: identifiers ------------------------ *)

\* Identifiers are strings written as sequences of symbols: the separators
\* ":" and "/" and words that contain neither.
Symbols == {":", "/", "spotify", "track", "album", "x"}

Ids == UNION {[1..n -> Symbols] : n \in 0..MaxIdLen}

\* References written as a URL whose path ends in /type/id.
Urls == {<<"https", ":", "/", "/", "host", "/", t, "/", "x">> :
            t \in {"track", "album"}}

\* The references a wrapper method is given.
References == Ids \cup Urls

\* The spotify_type arguments.
Types == {<<"track">>, <<"album">>}

\* str.split(sep, maxsplit): cuts at the first maxsplit occurrences of sep.
RECURSIVE Split(_, _, _)
Split(s, sep, maxsplit) ==
    IF maxsplit = 0 \/ ~\E i \in 1..Len(s) : s[i] = sep
    THEN <<s>>
    ELSE LET i == CHOOSE i \in 1..Len(s) :
                    s[i] = sep /\ \A j \in 1..(i - 1) : s[j] # sep
         IN  <<SubSeq(s, 1, i - 1)>> \o Split(SubSeq(s, i + 1, Len(s)), sep, maxsplit - 1)

GetId_NoTypeCheck(spotify_type, spotify_id) ==
    LET fields == Split(spotify_id, ":", 2)
        parts == Split(spotify_id, "/", 2)
    IN  IF Len(fields) = 3 THEN ReturnValue(Some(fields[3]))
        ELSE IF Len(parts) = 3 THEN ReturnValue(Some(parts[3]))
        ELSE ReturnValue(Some(spotify_id))

\* _get_id; fields[-2] and fields[-1] of a list of three are fields[2] and
\* fields[3].
GetId(spotify_type, spotify_id) ==
    LET fields == Split(spotify_id, ":", 2)
        parts == Split(spotify_id, "/", 2)
    IN  IF Len(fields) = 3
        THEN IF spotify_type # fields[2]
             THEN RaiseError("ValueError", 0, None)
             ELSE ReturnValue(Some(fields[3]))
        ELSE IF Len(parts) = 3
        THEN IF spotify_type # parts[2]
             THEN RaiseError("ValueError", 0, None)
             ELSE ReturnValue(Some(parts[3]))
        ELSE ReturnValue(Some(spotify_id))

\* _get_uri without the type in the composed string.
GetUri_TypeOmitted(spotify_type, spotify_id) ==
    LET id == GetId(spotify_type, spotify_id)
    IN  IF id.kind = "raise" THEN id
        ELSE ReturnValue(Some(<<"spotify", ":">> \o Val(id.value)))

\* _get_uri: "spotify:{}:{}".format(spotify_type, _get_id(...)).
GetUri(spotify_type, spotify_id) ==
    LET id == GetId(spotify_type, spotify_id)
    IN  IF id.kind = "raise" THEN id
        ELSE ReturnValue(Some(<<"spotify", ":">> \o spotify_type \o <<":">>
                                \o Val(id.value)))

\* The item types search and search2 accept, as strings of characters.
SearchTypes ==
    {<<"a", "r", "t", "i", "s", "t">>, <<"a", "l", "b", "u", "m">>,
     <<"t", "r", "a", "c", "k">>, <<"p", "l", "a", "y", "l", "i", "s", "t">>}

\* The strings given as an item type: the four, the empty string, "show".
TypeWords == SearchTypes \cup {<<>>, <<"s", "h", "o", "w">>}

\* item_type: a str, or a sequence of str.
ItemTypeArgs ==
    {[kind |-> "str", v |-> w] : w \in TypeWords}
        \cup {[kind |-> "list", v |-> l] :
                    l \in UNION {[1..n -> TypeWords] : n \in 0..MaxTypes}}

\* `for type_ in item_type`: a str yields its characters, each a string of
\* length one; a sequence yields its elements.
Iterate(item_type) ==
    IF item_type.kind = "str"
    THEN {<<item_type.v[i]>> : i \in DOMAIN item_type.v}
    ELSE {item_type.v[i] : i \in DOMAIN item_type.v}

\* The validation of item_type in search and search2; a call that passes
\* it hands item_type on as the parameter "type".
CheckItemType(item_type) ==
    IF item_type.kind = "str" /\ item_type.v \notin SearchTypes
    THEN RaiseError("ValueError", 0, None)
    ELSE IF \E type_ \in Iterate(item_type) : type_ \notin SearchTypes
    THEN RaiseError("ValueError", 0, None)
    ELSE ReturnValue(Some(item_type))

(* ------------------------------ util.py ------------------------------- *)

\* REDIRECT_URI, "{}:{}".format(REDIRECT_ADDRESS, PORT).
REDIRECT_URI == <<"http://localhost:8080">>

\* The redirect_uri given to local_server.
RedirectUris == {REDIRECT_URI, <<"https://example.com/callback">>}

\* parse_qs of the query of a request: each key absent or a value.
Queries ==
    {[code |-> c, error |-> e, state |-> st] :
        c \in {Absent, <<"abc">>},
        e \in {Absent, <<"access_denied">>, <<"server_error">>},
        st \in {Absent, <<"s">>}}

\* The requests sent to the callback server.
ServerRequests ==
    {[method |-> "GET", query |-> q] : q \in Queries}
        \cup {[method |-> "POST", query |-> [code |-> Absent, error |-> Absent,
                                             state |-> Absent]]}

\* `not httpd.latest_query_components` is FALSE exactly for these.
QueryTruthy(q) == q # None /\ DictTruthy(q)

\* get_authentication_code after its loop.
AuthenticationCode(q) ==
    IF q.error # Absent
    THEN RaiseError("SpotifyError", 0,
                    IF q.error = <<"access_denied">>
                    THEN <<"The user rejected Spotify access">>
                    ELSE <<"Unknown error from Spotify authentication server">>)
    ELSE IF q.code # Absent THEN ReturnValue(q.code)
    ELSE RaiseError("SpotifyError", 0,
                    <<"Unknown response from Spotify authentication server">>)

\* The callback server of a run of the authorization flow: the position
\* of the flow, the listening socket ("none" while no server was made),
\* MicroServer.latest_query_components, the requests served, and the
\* outcome of the `with` statement.
NoServer ==
    [pc |-> "idle", redirect_uri |-> None, socket |-> "none",
     latest_query_components |-> None, log |-> <<>>, out |-> NoOutcome]

\* No function has been called.
NoPure == [pc |-> "none", spotify_type |-> <<>>, spotify_id |-> <<>>,
           out |-> NoOutcome, uri |-> NoOutcome]

(* ------------------------------ state --------------------------------- *)

NoResponse == [kind |-> "none", status |-> 0, content |-> "empty", body |-> NoBody]

NoTokenInfo == [access_token |-> None, expires_in |-> None, refresh_token |-> None]

\* A caller that is not inside make_authorization_headers.
IdleCall ==
    [pc |-> "idle", path |-> "none", now |-> None, reqid |-> 0,
     payload |-> [grant_type |-> "none"], resp |-> NoResponse,
     token_info |-> NoTokenInfo, sent |-> 0, wrote |-> {},
     header |-> None, err |-> Raised("", 0), first |-> FALSE]

AbsentFile == [state |-> "absent"]

\* expires_src records which exchange assigned the provider's expiry (its
\* request, the clock reading it started with, its expires_in); NoExchange
\* when the expiry is the constructor's.
NoExchange == [exchange |-> 0, start |-> 0, expires_in |-> 0]

\* The state before the constructor call, with the callers that will share
\* the provider.
InitWith(callers) ==
    /\ phase = "new"
    /\ args \in
         {[kind |-> "ClientCredentials", client_id |-> ClientId,
           client_secret |-> ClientSecret, refresh_token |-> None,
           access_token |-> None, expires_at |-> None, path |-> None,
           session |-> None]}
         \cup
         {[kind |-> "AuthorizationCode", client_id |-> ClientId,
           client_secret |-> ClientSecret, refresh_token |-> RefreshToken(0),
           access_token |-> a, expires_at |-> e, path |-> p, session |-> s] :
             a \in SeedAccessTokens, e \in SeedExpiresAt,
             p \in PersistPaths, s \in Sessions}
         \cup
         {[kind |-> "PlainAccessToken", client_id |-> None,
           client_secret |-> None, refresh_token |-> None,
           access_token |-> a, expires_at |-> None, path |-> None,
           session |-> None] : a \in PlainTokens}
    /\ prov = NoProvider
    /\ file = AbsentFile
    /\ clock = 0
    /\ requests = 0
    /\ call = [t \in callers |-> IdleCall]
    /\ expires_src = NoExchange
    /\ fresh_load = FALSE
    /\ sp = NoSpotify
    /\ exec = IdleExec
    /\ oa = NoOAuth
    /\ pure = NoPure
    /\ httpd = NoServer

\* One caller: calls on the provider never overlap.
Init == InitWith({1})

\* NCallers callers whose calls overlap.
InitConcurrent == InitWith(Callers)

(* ----------------------------- actions -------------------------------- *)

\* The constructors.
Construct ==
    /\ phase = "new"
    /\ \/ /\ args.kind = "ClientCredentials"
          /\ prov' = NewClientCredentials(args)
          /\ phase' = "ready"
       \/ /\ args.kind = "AuthorizationCode"
          /\ CtorRejects(args.access_token, args.expires_at)
          /\ phase' = "ctor_error"
          /\ prov' = prov
       \/ /\ args.kind = "AuthorizationCode"
          /\ ~CtorRejects(args.access_token, args.expires_at)
          /\ prov' = NewAuthorizationCode(args)
          /\ phase' = "ready"
       \/ /\ args.kind = "PlainAccessToken"
          /\ prov' = NewPlainAccessToken(args)
          /\ phase' = "ready"
    /\ UNCHANGED <<args, file, clock, requests, call, expires_src, fresh_load>>
    /\ UNCHANGED cvars

\* time.time() advances.
Tick ==
    /\ clock < MaxTime
    /\ clock' = clock + 1
    /\ UNCHANGED <<phase, args, prov, file, requests, call, expires_src, fresh_load>>
    /\ UNCHANGED cvars

\* make_authorization_headers up to the request it sends: the test of the
\* cached token, then _request_access_token's payload, clock reading and post.
Check(t) ==
    /\ phase = "ready"
    /\ prov.kind \in {"ClientCredentials", "AuthorizationCode"}
    /\ call[t].pc \in {"idle", "done", "failed"}
    /\ fresh_load' = FALSE
    /\ \/ /\ Truthy(prov.access_token)
          /\ prov.expires_at # None
          /\ ~IsTokenExpired(Val(prov.expires_at), clock)
          /\ call' = [call EXCEPT ![t] =
                        [IdleCall EXCEPT !.pc = "ret", !.path = "cached",
                                         !.first = fresh_load]]
          /\ UNCHANGED requests
       \/ /\ Truthy(prov.access_token)
          /\ prov.expires_at = None
          /\ call' = [call EXCEPT ![t] =
                        [IdleCall EXCEPT !.pc = "failed", !.err = Raised("TypeError", 0),
                                         !.first = fresh_load]]
          /\ UNCHANGED requests
       \/ /\ \/ ~Truthy(prov.access_token)
             \/ /\ prov.expires_at # None
                /\ IsTokenExpired(Val(prov.expires_at), clock)
          /\ prov.session = None
          /\ call' = [call EXCEPT ![t] =
                        [IdleCall EXCEPT !.pc = "failed", !.path = "refresh",
                                         !.err = Raised("AttributeError", 0),
                                         !.first = fresh_load]]
          /\ UNCHANGED requests
       \/ /\ \/ ~Truthy(prov.access_token)
             \/ /\ prov.expires_at # None
                /\ IsTokenExpired(Val(prov.expires_at), clock)
          /\ prov.session # None
          /\ requests < MaxRequests
          /\ requests' = requests + 1
          /\ call' = [call EXCEPT ![t] =
                        [IdleCall EXCEPT !.pc = "wait", !.path = "refresh",
                                         !.now = Some(clock), !.reqid = requests + 1,
                                         !.payload = RequestPayload(prov),
                                         !.sent = 1, !.first = fresh_load]]
    /\ UNCHANGED <<phase, args, prov, file, clock, expires_src>>
    /\ UNCHANGED cvars

\* request_token returns or raises, and _request_access_token assigns
\* self._access_token.
Receive(t) ==
    /\ call[t].pc = "wait"
    /\ \E resp \in Responses(call[t].reqid) :
         LET r == RequestToken(resp) IN
         \/ /\ ~r.ok
            /\ call' = [call EXCEPT ![t] =
                          [@ EXCEPT !.pc = "failed", !.err = r.err, !.resp = resp,
                                    !.now = None, !.reqid = 0,
                                    !.payload = IdleCall.payload]]
            /\ prov' = prov
         \/ /\ r.ok
            /\ r.token_info.access_token = None
            /\ call' = [call EXCEPT ![t] =
                          [@ EXCEPT !.pc = "failed", !.err = Raised("KeyError", 0),
                                    !.resp = resp, !.now = None, !.reqid = 0,
                                    !.payload = IdleCall.payload]]
            /\ prov' = prov
         \/ /\ r.ok
            /\ r.token_info.access_token # None
            /\ prov' = [prov EXCEPT !.access_token = Val(r.token_info.access_token)]
            /\ call' = [call EXCEPT ![t] =
                          [@ EXCEPT !.pc = "set_expires", !.resp = resp,
                                    !.token_info = r.token_info,
                                    !.wrote = @ \cup {"access_token"}]]
    /\ UNCHANGED <<phase, args, file, clock, requests, expires_src, fresh_load>>
    /\ UNCHANGED cvars

\* _request_access_token assigns the expiry: token_info["expires_in"] + now.
SetExpires(t) ==
    /\ call[t].pc = "set_expires"
    /\ \/ /\ call[t].token_info.expires_in = None
          /\ call' = [call EXCEPT ![t] =
                        [@ EXCEPT !.pc = "failed", !.err = Raised("KeyError", 0),
                                  !.now = None, !.reqid = 0,
                                  !.payload = IdleCall.payload,
                                  !.token_info = NoTokenInfo]]
          /\ UNCHANGED <<prov, expires_src>>
       \/ /\ call[t].token_info.expires_in # None
          /\ prov' = [prov EXCEPT !.expires_at =
                         Some(ExpiresAt(Val(call[t].token_info.expires_in),
                                        Val(call[t].now)))]
          /\ expires_src' = [exchange |-> call[t].reqid,
                             start |-> Val(call[t].now),
                             expires_in |-> Val(call[t].token_info.expires_in)]
          /\ call' = [call EXCEPT ![t] =
                        [@ EXCEPT !.pc = IF prov.kind = "AuthorizationCode"
                                            /\ Truthy(prov.path)
                                         THEN "save" ELSE "ret",
                                  !.now = None, !.payload = IdleCall.payload,
                                  !.token_info = NoTokenInfo,
                                  !.wrote = @ \cup {"expires_at"}]]
    /\ UNCHANGED <<phase, args, file, clock, requests, fresh_load>>
    /\ UNCHANGED cvars

\* AuthorizationCode.save, or the error of open() or of the write.
Save(t) ==
    /\ call[t].pc = "save"
    /\ \/ /\ file' = [state |-> "written", data |-> SaveData(prov)]
          /\ call' = [call EXCEPT ![t] =
                        [@ EXCEPT !.pc = "ret", !.wrote = @ \cup {"file"}]]
       \/ /\ file' = file
          /\ call' = [call EXCEPT ![t] =
                        [@ EXCEPT !.pc = "failed", !.err = Raised("IOError", 0), !.reqid = 0]]
       \/ /\ file' = [state |-> "partial"]
          /\ call' = [call EXCEPT ![t] =
                        [@ EXCEPT !.pc = "failed", !.err = Raised("IOError", 0), !.reqid = 0,
                                  !.wrote = @ \cup {"file"}]]
    /\ UNCHANGED <<phase, args, prov, clock, requests, expires_src, fresh_load>>
    /\ UNCHANGED cvars

\* The return statement of make_authorization_headers.
Return(t) ==
    /\ call[t].pc = "ret"
    /\ call' = [call EXCEPT ![t] =
                  [@ EXCEPT !.pc = "done", !.reqid = 0,
                            !.header = Bearer(prov.access_token)]]
    /\ UNCHANGED <<phase, args, prov, file, clock, requests, expires_src, fresh_load>>
    /\ UNCHANGED cvars

PlainMakeAuthorizationHeaders_Refreshing(t) ==
    /\ phase = "ready"
    /\ prov.kind = "PlainAccessToken"
    /\ call[t].pc \in {"idle", "done", "failed"}
    /\ requests < MaxRequests
    /\ requests' = requests + 1
    /\ call' = [call EXCEPT ![t] =
                  [IdleCall EXCEPT !.pc = "wait", !.path = "refresh",
                                   !.now = Some(clock), !.reqid = requests + 1,
                                   !.sent = 1]]
    /\ UNCHANGED <<phase, args, prov, file, clock, expires_src, fresh_load>>
    /\ UNCHANGED cvars

\* PlainAccessToken.make_authorization_headers: one return statement that
\* formats the stored token.
PlainMakeAuthorizationHeaders(t) ==
    /\ phase = "ready"
    /\ prov.kind = "PlainAccessToken"
    /\ call[t].pc \in {"idle", "done", "failed"}
    /\ call' = [call EXCEPT ![t] =
                  [IdleCall EXCEPT !.pc = "done", !.path = "plain",
                                   !.header = Bearer(prov.access_token)]]
    /\ UNCHANGED <<phase, args, prov, file, clock, requests, expires_src, fresh_load>>
    /\ UNCHANGED cvars

\* AuthorizationCode.load of the persistence file, while no call is running.
Load ==
    /\ phase = "ready"
    /\ prov.kind = "AuthorizationCode"
    /\ \A t \in DOMAIN call : call[t].pc \in {"idle", "done", "failed"}
    /\ \/ /\ file.state = "written"
          /\ \E s \in Sessions : prov' = LoadProvider(file.data, <<".cache">>, s)
          /\ expires_src' = NoExchange
          /\ fresh_load' = TRUE
          /\ phase' = phase
       \/ /\ file.state # "written"
          /\ phase' = "load_error"
          /\ UNCHANGED <<prov, expires_src, fresh_load>>
    /\ UNCHANGED <<args, file, clock, requests, call>>
    /\ UNCHANGED cvars

Next ==
    \/ Construct
    \/ Tick
    \/ Load
    \/ \E t \in DOMAIN call : Check(t)
    \/ \E t \in DOMAIN call : Receive(t)
    \/ \E t \in DOMAIN call : SetExpires(t)
    \/ \E t \in DOMAIN call : Save(t)
    \/ \E t \in DOMAIN call : Return(t)
    \/ \E t \in DOMAIN call : PlainMakeAuthorizationHeaders(t)

Spec == Init /\ [][Next]_vars

SpecConcurrent == InitConcurrent /\ [][Next]_vars

(* ---------------------- client.py, oauth2.py: actions ----------------- *)

\* A Spotify object with its token source, or a SpotifyOAuth object with
\* its cache file, at some time of the clock.
InitClient ==
    /\ args = [kind |-> "ClientCredentials", client_id |-> ClientId,
               client_secret |-> ClientSecret, refresh_token |-> None,
               access_token |-> None, expires_at |-> None, path |-> None,
               session |-> None]
    /\ requests = 0
    /\ call = [t \in {1} |-> IdleCall]
    /\ expires_src = NoExchange
    /\ fresh_load = FALSE
    /\ exec = IdleExec
    /\ pure = NoPure
    /\ httpd = NoServer
    /\ \/ /\ phase = "client"
          /\ sp \in SpotifyObjects
          /\ prov \in IF sp.auth = ProviderRef THEN ProviderObjects ELSE {NoProvider}
          /\ file = AbsentFile
          /\ clock = 0
          /\ oa = NoOAuth
       \/ /\ phase = "oauth"
          /\ sp = NoSpotify
          /\ prov = NoProvider
          /\ file \in CacheFiles
          /\ clock \in 0..MaxTime
          /\ oa \in {NewSpotifyOAuth(c) : c \in PersistPaths}

\* _internal_call up to session.request: the query is encoded, the prefix
\* put before a relative url, the Authorization header obtained, and the
\* request handed to the transport.
StartCall(op, method, url, raw, ans) ==
    LET params == IF DictTruthy(raw) THEN EncodeParams(raw) ELSE raw
        h == AuthHeaders(sp, clock, ans)
        asked == ~Truthy(sp.auth) /\ sp.client_credentials_manager # None
    IN  /\ asked \/ ans.status = HTTP_OK
        /\ exec' = IF h.ok
                   THEN [IdleExec EXCEPT !.pc = "sending", !.op = op, !.path = url,
                                         !.url = RequestUrl(url),
                                         !.method = method,
                                         !.raw = raw, !.params = params,
                                         !.headers = h.headers,
                                         !.token_answer = IF asked THEN ans.status ELSE 0,
                                         !.calls = 1]
                   ELSE [IdleExec EXCEPT !.pc = "failed", !.op = op, !.path = url,
                                         !.method = method,
                                         !.raw = raw, !.params = params,
                                         !.token_answer = ans.status,
                                         !.out = [NoOutcome EXCEPT !.kind = "raise",
                                                                   !.err = h.err]]
        /\ sp' = IF asked
                 THEN [sp EXCEPT !.client_credentials_manager =
                          Some([Val(@) EXCEPT !.token_info = h.token_info])]
                 ELSE sp

\* A call of _get, _post, _delete or _put by an endpoint wrapper.
InternalCall ==
    /\ phase = "client"
    /\ exec.pc \in {"idle", "done", "failed"}
    /\ \E method \in Methods, url \in Paths, raw \in ParamInputs, ans \in TokenAnswers :
         StartCall("_internal_call", method, url, raw, ans)
    /\ UNCHANGED <<avars, clock, oa, pure, httpd>>

\* Spotify.next: _get(result["next"]) when the field is truthy, else None.
NextPage ==
    /\ phase = "client"
    /\ exec.pc \in {"idle", "done", "failed"}
    /\ \E result \in PagedResults, ans \in TokenAnswers :
         IF Truthy(result.next)
         THEN StartCall("next", "GET", result.next, IdleExec.raw, ans)
         ELSE /\ exec' = [IdleExec EXCEPT !.pc = "done", !.op = "next",
                                          !.path = result.next,
                                          !.out = ReturnValue(None)]
              /\ sp' = sp
    /\ UNCHANGED <<avars, clock, oa, pure, httpd>>

\* Spotify.previous: _get(result["previous"]) when the field is truthy,
\* else None.
PreviousPage ==
    /\ phase = "client"
    /\ exec.pc \in {"idle", "done", "failed"}
    /\ \E result \in PagedResults, ans \in TokenAnswers :
         IF Truthy(result.previous)
         THEN StartCall("previous", "GET", result.previous, IdleExec.raw, ans)
         ELSE /\ exec' = [IdleExec EXCEPT !.pc = "done", !.op = "previous",
                                          !.path = result.previous,
                                          !.out = ReturnValue(None)]
              /\ sp' = sp
    /\ UNCHANGED <<avars, clock, oa, pure, httpd>>

\* One HTTP attempt of the transport, and what the retry policy makes of it.
Attempt ==
    /\ exec.pc = "sending"
    /\ \E a \in AttemptOutcomes :
         LET n == exec.attempts + 1
             t == Transport(exec.method, a, n)
         IN  exec' = IF t = "retry"
                     THEN [exec EXCEPT !.attempts = n, !.last = a]
                     ELSE IF t = "return"
                     THEN [exec EXCEPT !.attempts = n, !.last = a,
                                       !.response = a, !.pc = "received"]
                     ELSE [exec EXCEPT !.attempts = n, !.last = a,
                                       !.pc = "failed", !.out = TransportError(a)]
    /\ UNCHANGED <<avars, clock, sp, oa, pure, httpd>>

\* _internal_call from line 139 on.
HandleResponse ==
    /\ exec.pc = "received"
    /\ LET out == Classify(exec.response, exec.params) IN
       exec' = [exec EXCEPT !.pc = IF out.kind = "raise" THEN "failed" ELSE "done",
                            !.out = out]
    /\ UNCHANGED <<avars, clock, sp, oa, pure, httpd>>

\* A call of SpotifyOAuth.get_cached_token.
GetCachedTokenCall ==
    /\ phase = "oauth"
    /\ oa.pc \in {"idle", "done", "failed"}
    /\ \E ans \in TokenAnswers, write_ok \in BOOLEAN :
         LET r == GetCachedToken(oa, file, clock, ans, write_ok) IN
         /\ oa' = [oa EXCEPT !.pc = IF r.out.kind = "raise" THEN "failed" ELSE "done",
                             !.out = r.out, !.ignored = r.ignored]
         /\ file' = IF r.write # None
                    THEN [state |-> "written", data |-> Val(r.write)]
                    ELSE file
    /\ UNCHANGED <<phase, args, prov, clock, requests, call, expires_src, fresh_load>>
    /\ UNCHANGED <<sp, exec, pure, httpd>>

NextClient ==
    \/ InternalCall
    \/ NextPage
    \/ PreviousPage
    \/ Attempt
    \/ HandleResponse
    \/ GetCachedTokenCall

SpecClient == InitClient /\ [][NextClient]_vars

\* The transport ends every attempt, with an answer or an error (the
\* default_timeout of the session), and _internal_call runs on once
\* session.request has returned.
SpecClientFair == SpecClient /\ WF_vars(Attempt) /\ WF_vars(HandleResponse)

(* ----------------------- client.py: identifiers ----------------------- *)

\* The arguments of a call of _get_id.
InitIds ==
    /\ phase = "ids"
    /\ args = [kind |-> "ClientCredentials", client_id |-> ClientId,
               client_secret |-> ClientSecret, refresh_token |-> None,
               access_token |-> None, expires_at |-> None, path |-> None,
               session |-> None]
    /\ prov = NoProvider
    /\ file = AbsentFile
    /\ clock = 0
    /\ requests = 0
    /\ call = [t \in {1} |-> IdleCall]
    /\ expires_src = NoExchange
    /\ fresh_load = FALSE
    /\ sp = NoSpotify
    /\ exec = IdleExec
    /\ oa = NoOAuth
    /\ pure \in {[pc |-> "called", spotify_type |-> t, spotify_id |-> i,
                   out |-> NoOutcome, uri |-> NoOutcome] :
                        t \in Types, i \in References}
    /\ httpd = NoServer

\* _get_id returns or raises.
GetIdCall ==
    /\ phase = "ids"
    /\ pure.pc = "called"
    /\ pure' = [pure EXCEPT !.pc = "done",
                            !.out = GetId(pure.spotify_type, pure.spotify_id)]
    /\ UNCHANGED <<avars, clock, sp, exec, oa, httpd>>

\* _get_uri is given the id that _get_id returned.
GetUriCall ==
    /\ phase = "ids"
    /\ pure.pc = "done"
    /\ pure.out.kind = "return"
    /\ pure' = [pure EXCEPT !.pc = "composed",
                            !.uri = GetUri(pure.spotify_type, Val(pure.out.value))]
    /\ UNCHANGED <<avars, clock, sp, exec, oa, httpd>>

NextIds == GetIdCall \/ GetUriCall

SpecIds == InitIds /\ [][NextIds]_vars

(* ---------------------- client.py: search, search2 -------------------- *)

\* The item_type argument of a call of search or search2.
InitSearch ==
    /\ phase = "search"
    /\ args = [kind |-> "ClientCredentials", client_id |-> ClientId,
               client_secret |-> ClientSecret, refresh_token |-> None,
               access_token |-> None, expires_at |-> None, path |-> None,
               session |-> None]
    /\ prov = NoProvider
    /\ file = AbsentFile
    /\ clock = 0
    /\ requests = 0
    /\ call = [t \in {1} |-> IdleCall]
    /\ expires_src = NoExchange
    /\ fresh_load = FALSE
    /\ sp = NoSpotify
    /\ exec = IdleExec
    /\ oa = NoOAuth
    /\ pure \in {[pc |-> "called", method |-> m, item_type |-> a,
                   out |-> NoOutcome] :
                        m \in {"search", "search2"}, a \in ItemTypeArgs}
    /\ httpd = NoServer

\* search validates item_type.
Search ==
    /\ phase = "search"
    /\ pure.pc = "called"
    /\ pure.method = "search"
    /\ pure' = [pure EXCEPT !.pc = "done", !.out = CheckItemType(pure.item_type)]
    /\ UNCHANGED <<avars, clock, sp, exec, oa, httpd>>

\* search2 validates item_type.
Search2 ==
    /\ phase = "search"
    /\ pure.pc = "called"
    /\ pure.method = "search2"
    /\ pure' = [pure EXCEPT !.pc = "done", !.out = CheckItemType(pure.item_type)]
    /\ UNCHANGED <<avars, clock, sp, exec, oa, httpd>>

NextSearch == Search \/ Search2

SpecSearch == InitSearch /\ [][NextSearch]_vars

(* -------------------- params_encoder.py: encode_params ---------------- *)

\* The data of a call of encode_params.
InitParams ==
    /\ phase = "params"
    /\ args = [kind |-> "ClientCredentials", client_id |-> ClientId,
               client_secret |-> ClientSecret, refresh_token |-> None,
               access_token |-> None, expires_at |-> None, path |-> None,
               session |-> None]
    /\ prov = NoProvider
    /\ file = AbsentFile
    /\ clock = 0
    /\ requests = 0
    /\ call = [t \in {1} |-> IdleCall]
    /\ expires_src = NoExchange
    /\ fresh_load = FALSE
    /\ sp = NoSpotify
    /\ exec = IdleExec
    /\ oa = NoOAuth
    /\ pure \in {[pc |-> "called", data |-> d, out |-> NoOutcome] :
                        d \in EncoderInputs}
    /\ httpd = NoServer

\* encode_params returns or raises.
EncodeParamsCall ==
    /\ phase = "params"
    /\ pure.pc = "called"
    /\ pure' = [pure EXCEPT !.pc = "done", !.out = EncodeParamsOutcome(pure.data)]
    /\ UNCHANGED <<avars, clock, sp, exec, oa, httpd>>

NextParams == EncodeParamsCall

SpecParams == InitParams /\ [][NextParams]_vars

(* ------------------- util.py: the callback server --------------------- *)

\* prompt_user_for_authorization_code_provider with deploy_local_server
\* reaches `with local_server(redirect_uri) as httpd`.
InitServer ==
    /\ phase = "server"
    /\ args = [kind |-> "ClientCredentials", client_id |-> ClientId,
               client_secret |-> ClientSecret, refresh_token |-> None,
               access_token |-> None, expires_at |-> None, path |-> None,
               session |-> None]
    /\ prov = NoProvider
    /\ file = AbsentFile
    /\ clock = 0
    /\ requests = 0
    /\ call = [t \in {1} |-> IdleCall]
    /\ expires_src = NoExchange
    /\ fresh_load = FALSE
    /\ sp = NoSpotify
    /\ exec = IdleExec
    /\ oa = NoOAuth
    /\ pure = NoPure
    /\ httpd \in {[NoServer EXCEPT !.pc = "start", !.redirect_uri = u] :
                        u \in RedirectUris}

\* local_server up to its yield: no server for another redirect_uri; else
\* the port is probed and the MicroServer bound to it.
LocalServerEnter ==
    /\ phase = "server"
    /\ httpd.pc = "start"
    /\ \E port_available \in BOOLEAN :
         httpd' = IF httpd.redirect_uri # REDIRECT_URI
                  THEN [httpd EXCEPT !.pc = "serving"]
                  ELSE IF ~port_available
                  THEN [httpd EXCEPT !.pc = "exited",
                                     !.out = RaiseError("SpotifyError", 0,
                                                        <<"Port 8080 is not available">>)]
                  ELSE [httpd EXCEPT !.pc = "serving", !.socket = "listening"]
    /\ UNCHANGED <<avars, clock, sp, exec, oa, pure>>

\* One turn of the loop of get_authentication_code: handle_request serves
\* one request; do_GET stores the parsed query, any other method is
\* answered 501 by BaseHTTPRequestHandler.
HandleRequest ==
    /\ httpd.pc = "serving"
    /\ httpd.socket = "listening"
    /\ ~QueryTruthy(httpd.latest_query_components)
    /\ Len(httpd.log) < MaxServed
    /\ \E request \in ServerRequests :
         httpd' = [httpd EXCEPT !.log = Append(@, request),
                                !.latest_query_components =
                                    IF request.method = "GET"
                                    THEN request.query ELSE @]
    /\ UNCHANGED <<avars, clock, sp, exec, oa, pure>>

\* get_authentication_code leaves its loop and returns the code or raises;
\* given None for httpd it raises AttributeError at once.
GetAuthenticationCode ==
    /\ httpd.pc = "serving"
    /\ httpd.socket = "none" \/ QueryTruthy(httpd.latest_query_components)
    /\ httpd' = [httpd EXCEPT !.pc = "leaving",
                              !.out = IF httpd.socket = "none"
                                      THEN RaiseError("AttributeError", 0, None)
                                      ELSE AuthenticationCode(
                                               httpd.latest_query_components)]
    /\ UNCHANGED <<avars, clock, sp, exec, oa, pure>>

\* The end of the `with` statement: after a body that returned, the
\* generator of local_server runs on past its yield, to server_close();
\* an exception of the body is thrown into the generator at the yield and
\* leaves it there.
LocalServerExit ==
    /\ httpd.pc = "leaving"
    /\ httpd' = [httpd EXCEPT !.pc = "exited",
                              !.socket = IF httpd.out.kind = "return"
                                            /\ httpd.socket = "listening"
                                         THEN "closed" ELSE @]
    /\ UNCHANGED <<avars, clock, sp, exec, oa, pure>>

NextServer ==
    \/ LocalServerEnter
    \/ HandleRequest
    \/ GetAuthenticationCode
    \/ LocalServerExit

SpecServer == InitServer /\ [][NextServer]_vars

(* ------------------------------ claims -------------------------------- *)

\* Caller t enters make_authorization_headers in this step.
CallStarts(t) == call[t].pc \in {"idle", "done", "failed"} /\ call'[t] # call[t]

\* Caller t executes the return statement in this step.
Returns(t) == call[t].pc = "ret" /\ call'[t].pc = "done"

\* Caller t has sent its request and not yet stored the whole answer.
InExchange(t) == call[t].pc \in {"wait", "set_expires", "save"}

\* The provider holds a token that is not expired: expires_at - now >= 30.
HoldsValidToken ==
    /\ phase = "ready"
    /\ Truthy(prov.access_token)
    /\ prov.expires_at # None
    /\ Val(prov.expires_at) - clock >= 30

\* C1: callers that use one provider at the same time share one token
\* exchange: no two of them have a token-exchange request under way at once.
C1_SingleFlight ==
    \A t, u \in DOMAIN call : t # u => ~(InExchange(t) /\ InExchange(u))

\* C2: whenever a caller reads the provider's token and expiry (on entering
\* make_authorization_headers), both come from the same token exchange.
C2_NoHalfUpdatedToken ==
    [][\A t \in DOMAIN call :
          CallStarts(t) =>
              TokenExchange(prov.access_token) = expires_src.exchange]_vars

\* C3: a call made while the provider holds a token with
\* expires_at - now >= 30 sends no request, changes neither the provider
\* nor the file, and returns "Bearer " + the cached token.
C3_CachedTokenNoRequest ==
    [][\A t \in DOMAIN call :
          /\ (CallStarts(t) /\ HoldsValidToken) =>
                /\ call'[t].pc = "ret"
                /\ call'[t].sent = 0
                /\ requests' = requests
                /\ prov' = prov
                /\ file' = file
          /\ (Returns(t) /\ call[t].path = "cached") =>
                /\ call'[t].header = <<"Bearer ", prov.access_token>>
                /\ call'[t].sent = 0
                /\ requests' = requests
                /\ prov' = prov
                /\ file' = file]_vars

C3_Witness ==
    \E t \in DOMAIN call :
        /\ call[t].pc = "done"
        /\ call[t].path = "cached"
        /\ call[t].header = <<"Bearer ", SeedToken>>
        /\ requests = 0
        /\ clock = 1

\* C4 as stated: at every successful return the provider's token is not
\* expired by its own predicate, whatever expires_in the endpoint sent.
C4_ReturnedTokenValid ==
    [][\A t \in DOMAIN call :
          Returns(t) =>
              /\ prov.expires_at # None
              /\ Val(prov.expires_at) - clock >= 30]_vars

\* C4 amended: a call that returns without refreshing found the token
\* unexpired when it tested it; and when the expiry was stored by an
\* exchange, the token is unexpired at the return exactly when that
\* exchange's expires_in, less the seconds since the exchange started, is
\* at least 30.
C4_ValidIffExpiresInCoversSkew ==
    [][\A t \in DOMAIN call :
          /\ (CallStarts(t) /\ call'[t].path = "cached") =>
                /\ prov.expires_at # None
                /\ Val(prov.expires_at) - clock >= 30
          /\ (Returns(t) /\ expires_src.exchange > 0) =>
                /\ prov.expires_at # None
                /\ (Val(prov.expires_at) - clock >= 30
                      <=> expires_src.expires_in - (clock - expires_src.start) >= 30)]_vars

C4_Witness ==
    \E t \in DOMAIN call :
        /\ call[t].pc = "done"
        /\ call[t].path = "refresh"
        /\ expires_src.exchange > 0
        /\ expires_src.start = 1
        /\ expires_src.expires_in = 31
        /\ clock = 2

\* C5: a non-2xx answer of the token endpoint makes the call fail with
\* AuthorizationError and leaves provider and file as they were.
C5_Non2xxAuthorizationError ==
    [][\A t \in DOMAIN call :
          (/\ call[t].pc = "wait"
           /\ call'[t].resp.kind = "http"
           /\ call'[t].resp.status \notin 200..299) =>
              /\ call'[t].pc = "failed"
              /\ call'[t].err = Raised("AuthorizationError", call'[t].resp.status)
              /\ prov' = prov
              /\ file' = file]_vars

\* C6: a call that fails has assigned neither access_token nor expires_at;
\* a call that refreshed and returned has assigned both.
C6_RefreshAtomic ==
    \A t \in DOMAIN call :
        /\ call[t].pc = "failed" =>
              call[t].wrote \cap {"access_token", "expires_at"} = {}
        /\ (call[t].pc = "done" /\ call[t].path = "refresh") =>
              {"access_token", "expires_at"} \subseteq call[t].wrote

\* C7: after a successful refresh whose response carries a refresh_token,
\* the authorization-code provider stores that refresh_token.
C7_RefreshTokenReplaced ==
    \A t \in DOMAIN call :
        (/\ prov.kind = "AuthorizationCode"
         /\ call[t].pc = "done"
         /\ call[t].path = "refresh"
         /\ call[t].resp.body.refresh_token # None) =>
            prov.refresh_token = Val(call[t].resp.body.refresh_token)

\* C8: the step that completes a refresh with a persistence path leaves in
\* the file exactly client_id, client_secret and refresh_token, with the
\* provider's values; without a path no step writes the file.
C8_PersistedTriple ==
    [][\A t \in DOMAIN call :
          /\ (InExchange(t) /\ call'[t].pc = "ret" /\ Truthy(prov.path)) =>
                /\ file'.state = "written"
                /\ DOMAIN file'.data = {"client_id", "client_secret", "refresh_token"}
                /\ file'.data.client_id = prov'.client_id
                /\ file'.data.client_secret = prov'.client_secret
                /\ file'.data.refresh_token = prov'.refresh_token
          /\ ~Truthy(prov.path) => file' = file]_vars

C8_Witness ==
    \E t \in DOMAIN call :
        /\ call[t].pc = "done"
        /\ call[t].path = "refresh"
        /\ "file" \in call[t].wrote
        /\ file.state = "written"
        /\ file.data.refresh_token = prov.refresh_token

\* C9: load of a file written by save gives a provider with the saving
\* provider's client_id, client_secret, refresh_token and path and with no
\* access token; the first call on it never takes the cached path, and
\* returns a header only after exactly one exchange of its own.
C9_LoadThenRefresh ==
    [][/\ (fresh_load' /\ ~fresh_load) =>
            /\ file.state = "written"
            /\ prov'.client_id = prov.client_id
            /\ prov'.client_secret = prov.client_secret
            /\ prov'.refresh_token = prov.refresh_token
            /\ prov'.path = prov.path
            /\ prov'.access_token = None
            /\ prov'.expires_at = None
       /\ \A t \in DOMAIN call :
            (call'[t].first /\ call'[t].pc \in {"ret", "done"}) =>
                /\ call'[t].path = "refresh"
                /\ call'[t].sent = 1
                /\ (call'[t].pc = "done" =>
                      \E n \in 1..requests' : call'[t].header = <<"Bearer ", Token(n)>>)]_vars

C9_Witness ==
    \E t \in DOMAIN call :
        /\ call[t].first
        /\ call[t].pc = "done"
        /\ call[t].sent = 1
        /\ call[t].header = <<"Bearer ", prov.access_token>>

\* Exactly one of access_token and access_token_expires_at was supplied.
ExactlyOneSupplied ==
    \/ args.access_token # None /\ args.expires_at = None
    \/ args.access_token = None /\ args.expires_at # None

\* C10: the AuthorizationCode constructor fails exactly when one of
\* access_token and access_token_expires_at is supplied without the other.
C10_ConstructorPairing ==
    args.kind = "AuthorizationCode" =>
        /\ phase = "ctor_error" => ExactlyOneSupplied
        /\ phase \in {"ready", "load_error"} => ~ExactlyOneSupplied

C10_Witness ==
    /\ phase = "ctor_error"
    /\ args.access_token # None
    /\ args.expires_at = None

\* C11: a call on a ClientCredentials provider that holds no token, or a
\* token with expires_at - now < 30, sends one request with grant type
\* client_credentials; when the exchange succeeds the provider holds the
\* response's access_token and expires_at = (clock reading taken when the
\* request was sent) + expires_in.
C11_ClientCredentialsExchange ==
    [][\A t \in DOMAIN call :
          /\ (/\ prov.kind = "ClientCredentials"
              /\ CallStarts(t)
              /\ \/ prov.access_token = None
                 \/ /\ prov.expires_at # None
                    /\ Val(prov.expires_at) - clock < 30) =>
                /\ call'[t].pc = "wait"
                /\ call'[t].payload = [grant_type |-> "client_credentials"]
                /\ call'[t].now = Some(clock)
                /\ requests' = requests + 1
          /\ (/\ prov.kind = "ClientCredentials"
              /\ call[t].pc = "set_expires"
              /\ call'[t].pc = "ret") =>
                /\ prov'.access_token = Val(call[t].resp.body.access_token)
                /\ prov'.expires_at =
                      Some(Val(call[t].now) + Val(call[t].resp.body.expires_in))]_vars

C11_Witness ==
    \E t \in DOMAIN call :
        /\ prov.kind = "ClientCredentials"
        /\ call[t].pc = "done"
        /\ call[t].path = "refresh"
        /\ requests = 2
        /\ prov.access_token = Token(2)
        /\ expires_src.start = 1
        /\ prov.expires_at = Some(32)

\* C12: with a PlainAccessToken provider no step sends a request or changes
\* the provider or the file, the token stays the one given to the
\* constructor, and every call returns "Bearer " + that token.
C12_PlainNeverRefreshes ==
    [][(phase = "ready" /\ prov.kind = "PlainAccessToken") =>
          /\ requests = 0
          /\ requests' = requests
          /\ prov' = prov
          /\ prov.access_token = args.access_token
          /\ file' = file
          /\ \A t \in DOMAIN call :
                CallStarts(t) =>
                    /\ call'[t].pc = "done"
                    /\ call'[t].sent = 0
                    /\ call'[t].header = <<"Bearer ", args.access_token>>]_vars

C12_Witness ==
    \E t \in DOMAIN call :
        /\ prov.kind = "PlainAccessToken"
        /\ call[t].pc = "done"
        /\ call[t].header = <<"Bearer ", SeedToken>>
        /\ prov.access_token = SeedToken
        /\ requests = 0
        /\ clock = MaxTime

\* The token held by the provider the Spotify object was constructed with:
\* the provider object's, the plain token's, or the manager's.
ConfiguredToken ==
    IF sp.auth = ProviderRef THEN prov.access_token
    ELSE IF sp.auth # None THEN sp.auth
    ELSE IF Val(sp.client_credentials_manager).token_info # None
         THEN Val(Val(sp.client_credentials_manager).token_info).access_token
         ELSE None

\* C13: every request _internal_call sends carries
\* Authorization = "Bearer " + the access token held by the provider the
\* Spotify object was constructed with.
C13_BearerOfProviderToken ==
    (/\ exec.calls > 0
     /\ sp.auth # None \/ sp.client_credentials_manager # None) =>
        exec.headers = Some(<<"Bearer ", ConfiguredToken>>)

\* The call had to ask its token manager for a token.
AskedManager == ~Truthy(sp.auth) /\ sp.client_credentials_manager # None

\* C14: a call for which the token manager has to fetch a token while the
\* token endpoint answers non-2xx ends with AuthorizationError carrying the
\* reason of that answer, and sends no request to the resource API.
C14_AuthErrorBeforeRequest ==
    (/\ exec.pc \in {"done", "failed"}
     /\ AskedManager
     /\ exec.token_answer \notin 200..299) =>
        /\ exec.out.kind = "raise"
        /\ exec.out.err.type = "AuthorizationError"
        /\ exec.out.err.message = <<"Unauthorized">>
        /\ exec.calls = 0

Responded == exec.pc \in {"done", "failed"} /\ exec.response.kind = "http"

C17_ServerErrorGeneric ==
    (/\ exec.pc \in {"done", "failed"}
     /\ exec.last.kind = "http"
     /\ exec.last.status \in 500..599) =>
        /\ exec.pc = "failed"
        /\ exec.out.kind = "raise"
        /\ exec.out.value = None
        /\ exec.out.err.type \in {"HTTPError", "RetryError"}
        /\ exec.out.err.status = exec.last.status

C17_Witness ==
    /\ Responded
    /\ exec.response.status = 500
    /\ exec.response.content = "json"
    /\ exec.out.err.type = "HTTPError"

\* C18: for a returned response with status below 400 the call returns None
\* when the status is 204 or the body is empty and the parsed JSON
\* otherwise; and every finished call has exactly one outcome, a returned
\* value (None or JSON) or one raised error.
C18_ReturnValue ==
    /\ (Responded /\ exec.response.status < 400) =>
          exec.out =
              IF exec.response.status = 204 \/ exec.response.content = "empty"
              THEN ReturnValue(None)
              ELSE ReturnValue(Some(exec.response.value))
    /\ exec.pc = "done" =>
          /\ exec.out.kind = "return"
          /\ exec.out.err = NoError
    /\ exec.pc = "failed" =>
          /\ exec.out.kind = "raise"
          /\ exec.out.value = None
          /\ exec.out.err.type # ""

C18_Witness ==
    /\ Responded
    /\ exec.response.status = 204
    /\ exec.response.content = "json"
    /\ exec.out = ReturnValue(None)

\* C19: a call into the token subsystem that returns normally has ignored
\* no failure other than a failed write of the token cache.
C19_NoErrorSwallowed ==
    oa.pc = "done" => oa.ignored \subseteq {"cache write"}

\* The positions of ":" in an identifier.
Colons(s) == {i \in 1..Len(s) : s[i] = ":"}

\* C20: for an identifier service:type:id with exactly two ":", _get_id
\* returns id when type is the expected type and raises otherwise.
C20_UriIdOfMatchingType ==
    (pure.pc = "done" /\ Cardinality(Colons(pure.spotify_id)) = 2) =>
        \E i, j \in Colons(pure.spotify_id) :
            /\ i < j
            /\ IF SubSeq(pure.spotify_id, i + 1, j - 1) = pure.spotify_type
               THEN pure.out =
                        ReturnValue(Some(SubSeq(pure.spotify_id, j + 1,
                                                Len(pure.spotify_id))))
               ELSE /\ pure.out.kind = "raise"
                    /\ pure.out.err.type = "ValueError"

C20_Witness ==
    /\ pure.pc = "done"
    /\ pure.spotify_type = <<"track">>
    /\ pure.spotify_id = <<"spotify", ":", "track", ":", "x">>
    /\ pure.out = ReturnValue(Some(<<"x">>))

\* C21: for a URL whose path ends in /type/id, _get_id returns id when type
\* is the expected type and raises otherwise.
C21_UrlIdOfMatchingType ==
    (pure.pc = "done" /\ pure.spotify_id \in Urls) =>
        IF <<pure.spotify_id[7]>> = pure.spotify_type
        THEN pure.out = ReturnValue(Some(<<pure.spotify_id[9]>>))
        ELSE /\ pure.out.kind = "raise"
             /\ pure.out.err.type = "ValueError"

\* The positions of "/" in an identifier.
Slashes(s) == {i \in 1..Len(s) : s[i] = "/"}

\* C22: _get_id returns unchanged every reference that has no "/" and
\* does not have exactly two ":".
C22_OtherReferencesUnchanged ==
    (/\ pure.pc = "done"
     /\ Slashes(pure.spotify_id) = {}
     /\ Cardinality(Colons(pure.spotify_id)) # 2) =>
        pure.out = ReturnValue(Some(pure.spotify_id))

\* A well-formed URI spotify:<type>:<id>: the id is a non-empty run of
\* words.
WellFormedUri(u) ==
    /\ Len(u) >= 5
    /\ u[1] = "spotify" /\ u[2] = ":" /\ <<u[3]>> \in Types /\ u[4] = ":"
    /\ \A i \in 5..Len(u) : u[i] \notin {":", "/"}

\* C23: for a well-formed URI u of the expected type,
\* _get_uri(type, _get_id(type, u)) = u.
C23_RoundTrip ==
    (/\ pure.pc = "composed"
     /\ WellFormedUri(pure.spotify_id)
     /\ <<pure.spotify_id[3]>> = pure.spotify_type) =>
        pure.uri = ReturnValue(Some(pure.spotify_id))

C23_Witness ==
    /\ pure.pc = "composed"
    /\ pure.spotify_type = <<"album">>
    /\ pure.spotify_id = <<"spotify", ":", "album", ":", "x">>
    /\ pure.out = ReturnValue(Some(<<"x">>))
    /\ pure.uri = ReturnValue(Some(<<"spotify", ":", "album", ":", "x">>))

\* The string form of a scalar.
StringForm(v) == IF IsStr(v) THEN v ELSE <<ToString(v[2])>>

\* C24: in the result of encode_params a key with None is absent, a
\* sequence has become its elements other than None joined with ",", and a
\* scalar has become its string form; {a: None, b: [x, None, y], c: 5}
\* gives {b: "x,y", c: "5"}.
C24_EncodedValues ==
    pure.pc = "done" =>
        /\ pure.out.kind = "return"
        /\ LET result == Val(pure.out.value)
           IN  /\ \A k \in DOMAIN pure.data :
                     /\ pure.data[k] \in {Absent, None, PyList(<<>>)} =>
                            result[k] = Absent
                     /\ pure.data[k] \in Scalars =>
                            result[k] = StringForm(pure.data[k])
                     /\ (IsIterable(pure.data[k]) /\ result[k] # Absent) =>
                            \E strs \in UNION {[1..n -> {EmptyStr, <<"x">>, <<"y">>, <<"5">>}] :
                                                    n \in 1..MaxItems} :
                                /\ Len(strs) = Len(NotNone(pure.data[k][3]))
                                /\ \A i \in DOMAIN strs :
                                     strs[i] = StringForm(NotNone(pure.data[k][3])[i])
                                /\ result[k] = Join(strs)
               /\ pure.data = [a |-> None, b |-> PyList(<<<<"x">>, None, <<"y">>>>),
                                 c |-> PyInt(5)] =>
                     result = [a |-> Absent, b |-> <<"x,y">>, c |-> <<"5">>]

\* C25: search and search2 raise ValueError exactly when a requested item
\* type, the string itself or an element of the sequence, is not one of
\* the four.
C25_ItemTypeValidated ==
    pure.pc = "done" =>
        LET requested == IF pure.item_type.kind = "str"
                         THEN {pure.item_type.v}
                         ELSE {pure.item_type.v[i] : i \in DOMAIN pure.item_type.v}
        IN  IF requested \subseteq SearchTypes
            THEN pure.out = ReturnValue(Some(pure.item_type))
            ELSE /\ pure.out.kind = "raise"
                 /\ pure.out.err.type = "ValueError"

\* C28: no key of the result of encode_params maps to the empty string.
C28_NoEmptyValue ==
    (pure.pc = "done" /\ pure.out.kind = "return") =>
        \A k \in DOMAIN pure.data : Val(pure.out.value)[k] # EmptyStr

\* C26: a call makes at most 1 + max_retries HTTP attempts and always ends
\* with a result or an error, and an answer with a 4xx status other than 429
\* or with a 5xx status is never followed by another attempt of the call.
C26_BoundedAttemptsNoRetryOfErrors ==
    /\ [](exec.attempts <= 1 + max_retries)
    /\ (exec.pc = "sending") ~> (exec.pc \in {"done", "failed"})
    /\ [][(/\ exec.pc = "sending"
           /\ exec.last # NoApiResponse
           /\ exec.last.kind = "http"
           /\ exec.last.status >= 400
           /\ exec.last.status # TOO_MANY_REQUESTS)
            => exec'.attempts = exec.attempts]_vars

\* C27: a request goes to prefix + path for a relative path and to the path
\* itself for an absolute URL; next and previous request the URL in the
\* field of the result, and return None without a request when the field
\* is None or empty.
C27_RequestUrl ==
    /\ exec.calls >= 1 =>
            exec.url = IF exec.path = PageUrl THEN exec.path
                       ELSE <<"https://", "api.spotify.com/v1/">> \o exec.path
    /\ (exec.op \in {"next", "previous"} /\ exec.pc # "idle") =>
            IF exec.path = PageUrl
            THEN exec.calls >= 1 => exec.url = PageUrl
            ELSE /\ exec.pc = "done"
                 /\ exec.out = ReturnValue(None)
                 /\ exec.calls = 0
                 /\ exec.attempts = 0

C27_Witness ==
    /\ exec.op = "next"
    /\ exec.pc = "done"
    /\ exec.path = PageUrl
    /\ exec.url = PageUrl
    /\ exec.attempts = 1
    /\ exec.out.kind = "return"

\* C30: between calls of make_authorization_headers, an AuthorizationCode
\* provider holds an access token exactly when it holds an expiry, and no
\* call evaluates the expiry check on a token without an expiry.
C30_TokenPairedWithExpiry ==
    (/\ phase = "ready"
     /\ prov.kind = "AuthorizationCode"
     /\ \A t \in DOMAIN call : call[t].pc \in {"idle", "done", "failed"}) =>
        /\ (prov.access_token = None) <=> (prov.expires_at = None)
        /\ \A t \in DOMAIN call : call[t].err # Raised("TypeError", 0)

\* The GET requests among the requests the callback server served.
ServedGets == {i \in DOMAIN httpd.log : httpd.log[i].method = "GET"}

\* C29: when the authorization flow has left the `with` statement, the
\* listening socket is not open, whether the flow got a code, got an error
\* or made no server, and a server that ran served exactly one GET request.
C29_OneRequestSocketReleased ==
    httpd.pc = "exited" =>
        /\ httpd.socket # "listening"
        /\ httpd.log # <<>> => Cardinality(ServedGets) = 1

====
